---- MODULE Spec2Model ----
(***************************************************************************)
(* Model of the sensor-data ingestion pipeline                             *)
(* (backend/app/services/ ingestion.py, class DataIngestionPipeline) and   *)
(* of the store it writes to (sensor_readings, data_quality_metrics).      *)
(*                                                                         *)
(* Metric values are fixed-point numbers in tenths (25.0 is 250), so that  *)
(* the bound -0.1 of gas_concentration is the integer -1.  Timestamps are  *)
(* minutes on one clock.  processing_time_ms is wall-clock noise and is    *)
(* left out of the results and of the quality records.                     *)
(***************************************************************************)
EXTENDS Integers, Sequences, FiniteSets, TLC

(* ------------------------------ bounds -------------------------------- *)
\* longest batch handed to ingest_batch
MaxLen == 3
\* number of ingest_batch calls made on the one pipeline instance
MaxCalls == 2
\* the same, in the specifications that feed it from one of the special pools
PoolCalls == 1

\* how often a caller sends the same analytics request again right away
MaxRepeats == 1

\* every request of the ingestion endpoint runs on a DataIngestionPipeline of
\* its own: one ingest_batch call per instance
CallsPerRequest == 1

(* ------------------------- program constants -------------------------- *)
\* settings.MAX_LATE_ARRIVAL_MINUTES
MAX_LATE_ARRIVAL_MINUTES == 60
\* the values datetime.utcnow() returns: the cutoff is minute 0 or minute 1
Clock == {MAX_LATE_ARRIVAL_MINUTES, MAX_LATE_ARRIVAL_MINUTES + 1}
\* the later of the two alone: the cutoff is minute 1
LateClock == {MAX_LATE_ARRIVAL_MINUTES + 1}
\* the values settings.MAX_BATCH_SIZE is configured to (default 1000)
BatchSizes == {1, 2}

\* a key that is absent from a reading dictionary
Missing == [kind |-> "missing", v |-> 0]

\* the equipment table: the fixture of the test suite
Registry == {"TEST-001"}

(* --------------------------- input values ----------------------------- *)
Num(v) == [kind |-> "num", v |-> v]
\* a string that float() cannot parse
Text == [kind |-> "text", v |-> 0]
NaN == [kind |-> "nan", v |-> 0]
\* a naive datetime object
Naive(t) == [kind |-> "naive", v |-> t]
\* a timezone-aware datetime object
Aware(t) == [kind |-> "aware", v |-> t]
\* an ISO-8601 string without offset, and one ending in Z
Iso(t) == [kind |-> "iso", v |-> t]
IsoZ(t) == [kind |-> "isoZ", v |-> t]
\* a string that datetime.fromisoformat() rejects
BadTime == [kind |-> "badtime", v |-> 0]
\* a time key that is present and holds None, and pandas' NaT
NoTime == [kind |-> "none", v |-> 0]
NaT == [kind |-> "nat", v |-> 0]

Reading(e, m, x, t) ==
    [equipment_id |-> e, metric_name |-> m, metric_value |-> x, time |-> t]

\* the readings a caller may put in a batch: two with the same natural key
\* and different values, one whose time is an ISO string, one for unknown
\* equipment, one whose timestamp is timezone-aware
ReadingPool ==
    { Reading("TEST-001", "temperature", Num(250), Naive(0)),
      Reading("TEST-001", "temperature", Num(300), Naive(0)),
      Reading("TEST-001", "temperature", Num(250), Iso(1)),
      Reading("NONEXISTENT", "temperature", Num(250), Naive(1)),
      Reading("TEST-001", "temperature", Num(250), Aware(1)) }

\* readings that differ only in how they fail validation, next to a valid one
ValidationPool ==
    { Reading("TEST-001", "temperature", Num(250), Naive(1)),
      Reading("TEST-001", "temperature", Missing, Naive(1)),
      Reading("TEST-001", "temperature", Text, Naive(1)),
      Reading("NONEXISTENT", "temperature", Num(250), Naive(1)),
      Reading("TEST-001", "temperature", Num(9999990), Naive(1)) }

\* valid readings with pairwise distinct natural keys, on time at every clock value
ChunkPool ==
    { Reading("TEST-001", "temperature", Num(250), Naive(1)),
      Reading("TEST-001", "temperature", Num(250), Naive(2)),
      Reading("TEST-001", "pressure", Num(250), Naive(1)) }

\* readings for the timeliness stage: one on each cutoff, one without a time
\* for each of two metrics, one whose timestamp is timezone-aware
TimelinessPool ==
    { Reading("TEST-001", "temperature", Num(250), Naive(0)),
      Reading("TEST-001", "temperature", Num(250), Naive(1)),
      Reading("TEST-001", "temperature", Num(250), NoTime),
      Reading("TEST-001", "pressure", Num(250), NoTime),
      Reading("TEST-001", "temperature", Num(250), Aware(1)) }

\* readings of two callers: two that share a natural key and differ in value,
\* and one with a key of its own
ConcurrentPool ==
    { Reading("TEST-001", "temperature", Num(250), Naive(1)),
      Reading("TEST-001", "temperature", Num(300), Naive(1)),
      Reading("TEST-001", "temperature", Num(250), Naive(2)) }

RECURSIVE SeqsUpTo(_, _)
SeqsUpTo(S, n) ==
    IF n = 0 THEN {<<>>}
    ELSE LET shorter == SeqsUpTo(S, n - 1)
         IN  shorter \cup {Append(s, x) : s \in {q \in shorter : Len(q) = n - 1}, x \in S}

(* --------------------------- validation ------------------------------- *)
\* _is_value_reasonable: the per-metric inclusive range, NaN and infinity refused
Ranges(metric_name) ==
    CASE metric_name = "gas_concentration" -> <<-1, 100000>>
      [] metric_name = "temperature"       -> <<-500, 2000>>
      [] metric_name = "pressure"          -> <<0, 10000>>
      [] metric_name = "humidity"          -> <<0, 1000>>
      [] metric_name = "battery_level"     -> <<0, 1000>>
      [] OTHER                             -> <<-10000000, 10000000>>

\* the range check with the bounds themselves refused
IsValueReasonable_Exclusive(metric_name, value) ==
    /\ value.kind = "num"
    /\ Ranges(metric_name)[1] < value.v
    /\ value.v < Ranges(metric_name)[2]

IsValueReasonable(metric_name, value) ==
    /\ value.kind = "num"
    /\ Ranges(metric_name)[1] <= value.v
    /\ value.v <= Ranges(metric_name)[2]

\* float(reading["metric_value"]): TRUE when it raises ValueError or TypeError
FloatRaises(x) == x.kind = "text"

\* the timestamp parse of _validate_readings: strings go through fromisoformat
\* (a trailing Z becomes +00:00, an aware datetime), other objects pass as is
TimeRaises(t) == t.kind = "badtime"
ParseTime(t) ==
    CASE t.kind = "iso"  -> Naive(t.v)
      [] t.kind = "isoZ" -> Aware(t.v)
      [] OTHER           -> t

HasRequiredFields(r) ==
    /\ r.equipment_id # "MISSING"
    /\ r.metric_name # "MISSING"
    /\ r.metric_value # Missing
    /\ r.time # Missing

\* the loop body without the equipment lookup
IsValid_NoEquipmentCheck(r) ==
    /\ HasRequiredFields(r)
    /\ ~FloatRaises(r.metric_value)
    /\ ~TimeRaises(r.time)
    /\ IsValueReasonable(r.metric_name, r.metric_value)

\* one pass of the loop body of _validate_readings: TRUE when the reading is appended
IsValid(r) ==
    /\ HasRequiredFields(r)
    /\ ~FloatRaises(r.metric_value)
    /\ ~TimeRaises(r.time)
    /\ IsValueReasonable(r.metric_name, r.metric_value)
    /\ r.equipment_id \in Registry

Normalize(r) ==
    [time |-> ParseTime(r.time), equipment_id |-> r.equipment_id,
     metric_name |-> r.metric_name, metric_value |-> r.metric_value.v]

RECURSIVE ValidateReadings(_)
ValidateReadings(rs) ==
    IF rs = <<>> THEN <<>>
    ELSE LET rest == ValidateReadings(Tail(rs))
         IN  IF IsValid(Head(rs)) THEN <<Normalize(Head(rs))>> \o rest ELSE rest

(* -------------------------- deduplication ----------------------------- *)
NaturalKey(r) == <<r.equipment_id, r.metric_name, r.time>>

\* drop_duplicates(subset = natural key, keep = "first")
RECURSIVE DropDuplicates(_, _)
DropDuplicates(rs, seen) ==
    IF rs = <<>> THEN <<>>
    ELSE IF NaturalKey(Head(rs)) \in seen
         THEN DropDuplicates(Tail(rs), seen)
         ELSE <<Head(rs)>> \o DropDuplicates(Tail(rs), seen \cup {NaturalKey(Head(rs))})

\* pd.DataFrame(readings) ... to_dict("records"): a time column of naive
\* datetimes and None is read as datetime64 and its None comes back as NaT;
\* a column of None alone, or one with timezone-aware values, keeps its None
ToRecords(rs) ==
    IF /\ \E k \in 1..Len(rs) : rs[k].time.kind = "naive"
       /\ \A k \in 1..Len(rs) : rs[k].time.kind \in {"naive", "none"}
    THEN [k \in 1..Len(rs) |->
             IF rs[k].time.kind = "none" THEN [rs[k] EXCEPT !.time = NaT] ELSE rs[k]]
    ELSE rs

Deduplicate(rs) == DropDuplicates(ToRecords(rs), {})

(* --------------------------- timeliness ------------------------------- *)
\* comparing an aware timestamp or None with the naive cutoff raises
\* TypeError; comparing NaT does not
CompareRaises(rs) == \E k \in 1..Len(rs) : rs[k].time.kind \notin {"naive", "nat"}

\* cutoff = now - timedelta(minutes = MAX_LATE_ARRIVAL_MINUTES)
Cutoff(clock) == clock - MAX_LATE_ARRIVAL_MINUTES

\* the two list comprehensions; every comparison with NaT is False
OnTime(rs, c) ==
    LET T(r) == r.time.kind = "naive" /\ r.time.v >= c IN SelectSeq(rs, T)

Late(rs, c) ==
    LET T(r) == r.time.kind = "naive" /\ r.time.v < c IN SelectSeq(rs, T)

(* ---------------------------- bulk insert ----------------------------- *)
Min(a, b) == IF a < b THEN a ELSE b

\* the slice taken one row too long
Chunk_OneTooLong(rs, i, batch_size) ==
    SubSeq(rs, i + 1, Min(i + batch_size + 1, Len(rs)))

\* readings[i:i + batch_size], i counted from 0
Chunk(rs, i, batch_size) == SubSeq(rs, i + 1, Min(i + batch_size, Len(rs)))

StoredKeys(rows) == {NaturalKey(r) : r \in rows}

\* a plain INSERT into a table without the primary key
RECURSIVE InsertRows_NoConflictClause(_, _)
InsertRows_NoConflictClause(rows, chunk) ==
    IF chunk = <<>> THEN rows
    ELSE InsertRows_NoConflictClause(rows \cup {Head(chunk)}, Tail(chunk))

\* an insert into a table whose only key is a row number of its own
RECURSIVE InsertRows_SurrogateKey(_, _)
InsertRows_SurrogateKey(rows, chunk) ==
    IF chunk = <<>> THEN rows
    ELSE InsertRows_SurrogateKey(
             rows \cup {[time |-> Head(chunk).time,
                         equipment_id |-> Head(chunk).equipment_id,
                         metric_name |-> Head(chunk).metric_name,
                         metric_value |-> Head(chunk).metric_value,
                         id |-> Cardinality(rows) + 1]},
             Tail(chunk))

\* INSERT ... ON CONFLICT DO UPDATE: the row sent replaces the stored one
RECURSIVE InsertRows_Upsert(_, _)
InsertRows_Upsert(rows, chunk) ==
    IF chunk = <<>> THEN rows
    ELSE InsertRows_Upsert(
             {r \in rows : NaturalKey(r) # NaturalKey(Head(chunk))} \cup {Head(chunk)},
             Tail(chunk))

\* INSERT ... ON CONFLICT DO NOTHING of the rows of one chunk, in order
RECURSIVE InsertRows(_, _)
InsertRows(rows, chunk) ==
    IF chunk = <<>> THEN rows
    ELSE InsertRows(IF NaturalKey(Head(chunk)) \in StoredKeys(rows)
                    THEN rows ELSE rows \cup {Head(chunk)},
                    Tail(chunk))

(* ------------------------------- state -------------------------------- *)
VARIABLES
    pool,            \* the readings callers send
    clock,           \* the values datetime.utcnow() may still return
    MAX_BATCH_SIZE,  \* settings.MAX_BATCH_SIZE, read from the environment
    store,           \* the rows of sensor_readings
    quality,         \* the rows of data_quality_metrics, in insertion order
    stats,           \* self.stats of the pipeline instance
    pc,              \* where the running ingest_batch call is
    call_limit,      \* how many calls the caller makes
    readings,        \* the argument of the running call
    validated_readings, \* what _validate_readings returned in that call
    unique_readings, \* what _deduplicate returned in that call
    cutoff,          \* the cutoff _check_timeliness computed in that call
    on_time,         \* the list handed to _bulk_insert
    i,               \* the loop index of _bulk_insert
    sent,            \* the chunks given to db.execute in that call
    failed_at,       \* the number of the chunk whose insert failed, or 0
    result,          \* what the last call returned
    calls,           \* calls begun on the instance
    stats0,          \* self.stats when the running call began
    store0,          \* the rows of sensor_readings when the running call began
    completed,       \* calls that returned success = True
    resend,          \* the batch of a caller that sends one batch again and again
    other,           \* the ingest_batch call of a second caller, on its own instance
    equipment,       \* the rows of the equipment table
    activity,        \* what the two count queries of predict_maintenance return
    hourly,          \* the rows of sensor_readings_hourly of one equipment and metric
    request,         \* the analytics request served last
    answer,          \* what the engine returned for it
    status,          \* the HTTP status the endpoint answered with
    queries,         \* the tables the engine queried while serving it
    fitted,          \* whether it fitted an IsolationForest while serving it
    forest,          \* the outlier score the fitted forest gives each reading
    repeats,         \* how often that request was served again right away
    log              \* the quality warnings _check_quality_thresholds logged

\* the variables of the first caller's call, and what is fixed when it starts
call == <<stats, pc, readings, validated_readings, unique_readings, cutoff, on_time,
          i, sent, failed_at, result, calls, stats0, store0, completed>>
setup == <<pool, MAX_BATCH_SIZE, call_limit, resend>>
\* the variables of the analytics side
engine == <<equipment, activity, hourly, request, answer, status, queries,
            fitted, forest, repeats>>

vars == <<pool, clock, MAX_BATCH_SIZE, store, quality, stats, pc, call_limit, readings,
          validated_readings, unique_readings, cutoff, on_time, i, sent,
          failed_at, result, calls, stats0, store0, completed, resend, other,
          equipment, activity, hourly, request, answer, status, queries,
          fitted, forest, repeats, log>>

\* __init__
NewStats == [total_processed |-> 0, invalid |-> 0, duplicates |-> 0, late_arrivals |-> 0]

NoResult == [success |-> FALSE, error |-> "no call yet", total_received |-> 0]

\* a caller that chooses every batch afresh, and no second caller
NoResend == [on |-> FALSE, batch |-> <<>>]
Resend(rs) == [on |-> TRUE, batch |-> rs]
NoOther == [pc |-> "absent", on_time |-> <<>>, i |-> 0, stats |-> NewStats]

\* None, as the value of a nullable column
None == [kind |-> "none", v |-> 0]

\* the equipment row of the fixture of the test suite
Equipment(e, type, calibrated) ==
    [equipment_id |-> e, equipment_type |-> type, last_calibration_date |-> calibrated]
FixtureEquipment == {Equipment("TEST-001", "gas_detector", None)}

NoActivity == [recent_alerts |-> 0, reading_count |-> 0]
\* no forest was ever fitted
NoForest == <<>>
NoRequest == [op |-> "none"]

\* a pipeline instance after __init__ and a caller that has not called yet
InitPipeline(p, n, c) ==
    /\ pool = p
    /\ clock = c
    /\ call_limit = n
    /\ validated_readings = <<>>
    /\ unique_readings = <<>>
    /\ MAX_BATCH_SIZE \in BatchSizes
    /\ quality = <<>>
    /\ stats = NewStats
    /\ pc = "idle"
    /\ readings = <<>>
    /\ cutoff = 0
    /\ on_time = <<>>
    /\ i = 0
    /\ sent = <<>>
    /\ failed_at = 0
    /\ result = NoResult
    /\ calls = 0
    /\ stats0 = NewStats
    /\ store0 = {}
    /\ completed = 0
    /\ log = <<>>

\* no analytics request served yet
InitEngine ==
    /\ request = NoRequest
    /\ answer = <<>>
    /\ status = 0
    /\ queries = <<>>
    /\ fitted = FALSE
    /\ repeats = 0

\* the tables the pipeline does not write, as the test fixture leaves them
InitTables ==
    /\ equipment = FixtureEquipment
    /\ activity = NoActivity
    /\ hourly = {}
    /\ forest = NoForest

InitWith(p, n, c) ==
    /\ InitPipeline(p, n, c)
    /\ store = {}
    /\ resend = NoResend
    /\ other = NoOther
    /\ InitTables
    /\ InitEngine

Init == InitWith(ReadingPool, MaxCalls, Clock)

\* the except branch of ingest_batch
Failure(e, rs) == [success |-> FALSE, error |-> e, total_received |-> Len(rs)]

\* the return statement of the try branch of ingest_batch
Success(rs, inserted, st) ==
    [success |-> TRUE,
     total_received |-> Len(rs),
     total_inserted |-> Len(inserted),
     invalid_count |-> st.invalid,
     duplicate_count |-> st.duplicates,
     late_arrival_count |-> st.late_arrivals]

\* the DataQualityMetric row built by _record_quality_metrics
QualityMetric(st) ==
    [total_records_processed |-> st.total_processed,
     invalid_records |-> st.invalid,
     duplicate_records |-> st.duplicates,
     late_arriving_records |-> st.late_arrivals,
     pipeline_stage |-> "ingestion"]

\* settings.MAX_DUPLICATE_RATE and settings.MAX_INVALID_RATE, in percent
MAX_DUPLICATE_RATE == 5
MAX_INVALID_RATE == 10

Max(a, b) == IF a > b THEN a ELSE b

\* count / max(total, 1) > limit, the limit in percent
RateExceeds(count, total, limit) == count * 100 > limit * Max(total, 1)

\* _check_quality_thresholds: the errors it logs, for the n-th call
QualityWarnings(st, n) ==
    (IF RateExceeds(st.duplicates, st.total_processed, MAX_DUPLICATE_RATE)
     THEN <<[call |-> n, warning |-> "High duplicate rate"]>> ELSE <<>>)
    \o (IF RateExceeds(st.invalid, st.total_processed, MAX_INVALID_RATE)
        THEN <<[call |-> n, warning |-> "High invalid record rate"]>> ELSE <<>>)

(* ------------------------------ actions ------------------------------- *)
\* ingest_batch, steps 1 to 3: validation, deduplication, timeliness
IngestBatch(rs, now) ==
    /\ pc = "idle"
    /\ calls < call_limit
    /\ LET validated == ValidateReadings(rs)
           unique == Deduplicate(validated)
           counted == [stats EXCEPT
                          !.invalid = @ + (Len(rs) - Len(validated)),
                          !.total_processed = @ + Len(rs),
                          !.duplicates = @ + (Len(validated) - Len(unique))]
           c == Cutoff(now)
       IN  /\ readings' = rs
           /\ validated_readings' = validated
           /\ unique_readings' = unique
           /\ stats0' = stats
           /\ store0' = store
           /\ calls' = calls + 1
           /\ sent' = <<>>
           /\ failed_at' = 0
           /\ i' = 0
           /\ IF unique # <<>> /\ CompareRaises(unique)
              THEN \* r["time"] >= cutoff raises TypeError: the except branch
                   /\ stats' = counted
                   /\ result' = Failure("TypeError", rs)
                   /\ pc' = "returned"
                   /\ on_time' = <<>>
                   /\ cutoff' = c
              ELSE /\ stats' = [counted EXCEPT
                                  !.late_arrivals = @ + Len(Late(unique, c))]
                   /\ on_time' = OnTime(unique, c)
                   /\ cutoff' = c
                   /\ pc' = IF OnTime(unique, c) # <<>> THEN "insert" ELSE "quality"
                   /\ result' = result
    \* the clock does not run backwards
    /\ clock' = {t \in clock : t >= now}
    /\ UNCHANGED <<pool, MAX_BATCH_SIZE, call_limit, store, quality, completed,
                   resend, other, engine, log>>

\* one iteration of the loop of _bulk_insert: execute, then commit
InsertChunk ==
    /\ pc = "insert"
    /\ LET batch == Chunk(on_time, i, MAX_BATCH_SIZE)
       IN  /\ sent' = Append(sent, batch)
           /\ store' = InsertRows(store, batch)
    /\ i' = i + MAX_BATCH_SIZE
    /\ pc' = IF i + MAX_BATCH_SIZE < Len(on_time) THEN "insert" ELSE "quality"
    /\ UNCHANGED <<pool, clock, MAX_BATCH_SIZE, call_limit, quality, stats, readings,
                   validated_readings, unique_readings, cutoff, on_time,
                   failed_at, result, calls, stats0, store0, completed, resend,
                   other, engine, log>>

\* the failure swallowed inside the loop, which goes on to the next chunk
InsertChunkFails_KeepsInserting ==
    /\ pc = "insert"
    /\ sent' = Append(sent, Chunk(on_time, i, MAX_BATCH_SIZE))
    /\ failed_at' = Len(sent) + 1
    /\ i' = i + MAX_BATCH_SIZE
    /\ pc' = IF i + MAX_BATCH_SIZE < Len(on_time) THEN "insert" ELSE "quality"
    /\ UNCHANGED <<pool, clock, MAX_BATCH_SIZE, call_limit, store, quality, stats,
                   readings, validated_readings, unique_readings, cutoff,
                   on_time, result, calls, stats0, store0, completed, resend,
                   other, engine, log>>

\* the failure without the rollback: the first row of the chunk stays
InsertChunkFails_NoRollback ==
    /\ pc = "insert"
    /\ sent' = Append(sent, Chunk(on_time, i, MAX_BATCH_SIZE))
    /\ store' = InsertRows(store, <<Head(Chunk(on_time, i, MAX_BATCH_SIZE))>>)
    /\ failed_at' = Len(sent) + 1
    /\ result' = Failure("store error", readings)
    /\ pc' = "returned"
    /\ UNCHANGED <<pool, clock, MAX_BATCH_SIZE, call_limit, quality, stats,
                   readings, validated_readings, unique_readings, cutoff,
                   on_time, i, calls, stats0, store0, completed, resend, other,
                   engine, log>>

\* the store fails on execute or commit: rollback, re-raise, except branch of
\* ingest_batch
InsertChunkFails ==
    /\ pc = "insert"
    /\ sent' = Append(sent, Chunk(on_time, i, MAX_BATCH_SIZE))
    /\ failed_at' = Len(sent) + 1
    /\ result' = Failure("store error", readings)
    /\ pc' = "returned"
    /\ UNCHANGED <<pool, clock, MAX_BATCH_SIZE, call_limit, store, quality, stats,
                   readings, validated_readings, unique_readings, cutoff,
                   on_time, i, calls, stats0, store0, completed, resend, other,
                   engine, log>>

\* the quality row written as soon as the timeliness stage is done
RecordQualityMetrics_BeforeInsert ==
    /\ pc \in {"insert", "quality"}
    /\ quality' = Append(quality, QualityMetric(stats))
    /\ log' = log \o QualityWarnings(stats, calls)
    /\ result' = Success(readings, on_time, stats)
    /\ completed' = completed + 1
    /\ pc' = "returned"
    /\ UNCHANGED <<pool, clock, MAX_BATCH_SIZE, call_limit, store, stats, readings,
                   validated_readings, unique_readings, cutoff, on_time, i,
                   sent, failed_at, calls, stats0, store0, resend, other, engine>>

\* step 5 and the return: _record_quality_metrics adds and commits the row,
\* then checks the quality thresholds
RecordQualityMetrics ==
    /\ pc = "quality"
    /\ quality' = Append(quality, QualityMetric(stats))
    /\ log' = log \o QualityWarnings(stats, calls)
    /\ result' = Success(readings, on_time, stats)
    /\ completed' = completed + 1
    /\ pc' = "returned"
    /\ UNCHANGED <<pool, clock, MAX_BATCH_SIZE, call_limit, store, stats, readings,
                   validated_readings, unique_readings, cutoff, on_time, i,
                   sent, failed_at, calls, stats0, store0, resend, other, engine>>

\* the store fails on the quality row: the except of _record_quality_metrics
\* logs that, the threshold check is skipped, and the call still returns the
\* success result
RecordQualityMetricsFails ==
    /\ pc = "quality"
    /\ result' = Success(readings, on_time, stats)
    /\ completed' = completed + 1
    /\ pc' = "returned"
    /\ UNCHANGED <<pool, clock, MAX_BATCH_SIZE, call_limit, store, quality, stats,
                   readings, validated_readings, unique_readings, cutoff,
                   on_time, i, sent, failed_at, calls, stats0, store0, resend,
                   other, engine, log>>

\* the caller has the result; the frame of the call is gone
Return ==
    /\ pc = "returned"
    /\ pc' = "idle"
    /\ readings' = <<>>
    /\ validated_readings' = <<>>
    /\ unique_readings' = <<>>
    /\ cutoff' = 0
    /\ on_time' = <<>>
    /\ i' = 0
    /\ sent' = <<>>
    /\ failed_at' = 0
    /\ result' = NoResult
    /\ stats0' = NewStats
    /\ store0' = {}
    /\ UNCHANGED <<pool, clock, MAX_BATCH_SIZE, call_limit, store, quality, stats, calls,
                   completed, resend, other, engine, log>>

\* the batches a caller may send: sequences over the pool, the empty one included
MainBatches == SeqsUpTo(ReadingPool, MaxLen)
ValidationBatches == SeqsUpTo(ValidationPool, MaxLen)
ChunkBatches == SeqsUpTo(ChunkPool, MaxLen)
ConcurrentBatches == SeqsUpTo(ConcurrentPool, MaxLen)
TimelinessBatches == SeqsUpTo(TimelinessPool, MaxLen)
Batches(p) ==
    CASE p = ReadingPool    -> MainBatches
      [] p = ValidationPool -> ValidationBatches
      [] p = ChunkPool      -> ChunkBatches
      [] p = ConcurrentPool -> ConcurrentBatches
      [] p = TimelinessPool -> TimelinessBatches
      [] OTHER              -> SeqsUpTo(p, MaxLen)

\* what the caller sends next
Sends == IF resend.on THEN {resend.batch} ELSE Batches(pool)

Next ==
    \/ \E rs \in Sends, now \in clock : IngestBatch(rs, now)
    \/ InsertChunk
    \/ InsertChunkFails
    \/ RecordQualityMetrics
    \/ RecordQualityMetricsFails
    \/ Return

Spec == Init /\ [][Next]_vars

\* one call on a fresh instance, fed from the general pool
SpecStages == InitWith(ReadingPool, CallsPerRequest, Clock) /\ [][Next]_vars

\* the same pipeline fed from the validation pool, and from the chunk pool
SpecValidation == InitWith(ValidationPool, PoolCalls, LateClock) /\ [][Next]_vars
SpecChunks == InitWith(ChunkPool, PoolCalls, LateClock) /\ [][Next]_vars
\* several calls on one instance, fed readings that share a natural key
SpecAtomicity == InitWith(ConcurrentPool, MaxCalls, LateClock) /\ [][Next]_vars
\* one call fed from the timeliness pool
SpecTimeliness == InitWith(TimelinessPool, CallsPerRequest, Clock) /\ [][Next]_vars

(* ------------------------- a second caller --------------------------- *)
\* the batches of the second caller: two readings each
OtherBatches == {<<a, b>> : a \in ConcurrentPool, b \in ConcurrentPool}

\* ingest_batch of the second caller, steps 1 to 3, on a pipeline of its own
OtherIngestBatch(rs, now) ==
    /\ other.pc = "idle"
    /\ LET validated == ValidateReadings(rs)
           unique == Deduplicate(validated)
           counted == [NewStats EXCEPT
                          !.invalid = Len(rs) - Len(validated),
                          !.total_processed = Len(rs),
                          !.duplicates = Len(validated) - Len(unique)]
           c == Cutoff(now)
       IN  IF unique # <<>> /\ CompareRaises(unique)
           THEN other' = [pc |-> "failed", on_time |-> <<>>, i |-> 0, stats |-> counted]
           ELSE other' = [pc |-> IF OnTime(unique, c) # <<>> THEN "insert" ELSE "quality",
                          on_time |-> OnTime(unique, c),
                          i |-> 0,
                          stats |-> [counted EXCEPT
                                        !.late_arrivals = Len(Late(unique, c))]]
    /\ clock' = {t \in clock : t >= now}
    /\ UNCHANGED <<call, setup, store, quality, engine, log>>

\* one iteration of the loop of _bulk_insert in the second caller's call
OtherInsertChunk ==
    /\ other.pc = "insert"
    /\ store' = InsertRows(store, Chunk(other.on_time, other.i, MAX_BATCH_SIZE))
    /\ other' = [other EXCEPT
                    !.i = @ + MAX_BATCH_SIZE,
                    !.pc = IF other.i + MAX_BATCH_SIZE < Len(other.on_time)
                           THEN "insert" ELSE "quality"]
    /\ UNCHANGED <<call, setup, clock, quality, engine, log>>

\* the store fails on a chunk of the second caller
OtherInsertChunkFails ==
    /\ other.pc = "insert"
    /\ other' = [other EXCEPT !.pc = "failed"]
    /\ UNCHANGED <<call, setup, clock, store, quality, engine, log>>

\* step 5 of the second caller's call: the quality row is written, or the
\* write fails and is logged
OtherRecordQualityMetrics ==
    /\ other.pc = "quality"
    /\ \E written \in BOOLEAN :
          quality' = IF written THEN Append(quality, QualityMetric(other.stats))
                     ELSE quality
    /\ other' = [other EXCEPT !.pc = "succeeded"]
    /\ UNCHANGED <<call, setup, clock, store, engine, log>>

InitConcurrent ==
    /\ InitPipeline(ConcurrentPool, CallsPerRequest, LateClock)
    /\ store = {}
    /\ resend = NoResend
    /\ other = [NoOther EXCEPT !.pc = "idle"]
    /\ InitTables
    /\ InitEngine

NextConcurrent ==
    \/ Next
    \/ \E rs \in OtherBatches, now \in clock : OtherIngestBatch(rs, now)
    \/ OtherInsertChunk
    \/ OtherInsertChunkFails
    \/ OtherRecordQualityMetrics

SpecConcurrent == InitConcurrent /\ [][NextConcurrent]_vars

\* a caller that sends one batch of the general pool on every call
InitResend ==
    /\ InitPipeline(ReadingPool, MaxCalls, Clock)
    /\ store = {}
    /\ resend \in {Resend(rs) : rs \in MainBatches}
    /\ other = NoOther
    /\ InitTables
    /\ InitEngine

SpecResend == InitResend /\ [][Next]_vars

(* --------------------- inputs of the range check ---------------------- *)
Metrics ==
    {"gas_concentration", "temperature", "pressure", "humidity", "battery_level",
     "vibration"}

\* the documented ranges, in tenths
DocumentedRange(m) ==
    CASE m = "gas_concentration" -> <<-1, 100000>>
      [] m = "temperature"       -> <<-500, 2000>>
      [] m = "pressure"          -> <<0, 10000>>
      [] m = "humidity"          -> <<0, 1000>>
      [] m = "battery_level"     -> <<0, 1000>>
      [] OTHER                   -> <<-10000000, 10000000>>

InDocumentedRange(m, v) == DocumentedRange(m)[1] <= v /\ v <= DocumentedRange(m)[2]

\* each bound, its two neighbours, and the 999999.0 of the test suite
Probes(m) ==
    LET lo == DocumentedRange(m)[1]
        hi == DocumentedRange(m)[2]
    IN  {lo - 1, lo, lo + 1, hi - 1, hi, hi + 1, 9999990}

\* the pipeline fed one otherwise valid reading of some metric and value
InitRange ==
    \E m \in Metrics : \E v \in Probes(m) :
        InitWith({Reading("TEST-001", m, Num(v), Naive(1))}, PoolCalls, LateClock)

SpecRange == InitRange /\ [][Next]_vars

(* ========================= the analytics engine ======================= *)
(* backend/app/services/analytics.py, class AnalyticsEngine, behind the   *)
(* endpoints of backend/app/api/analytics.py.  Times are minutes, values  *)
(* and thresholds are tenths.  metric_unit is carried through unchanged   *)
(* and is left out of the rows and of the violations.                     *)

\* settings.GAS_DETECTION_THRESHOLD, TEMPERATURE_THRESHOLD, PRESSURE_THRESHOLD
GAS_DETECTION_THRESHOLD == 100
TEMPERATURE_THRESHOLD == 600
PRESSURE_THRESHOLD == 1500
\* the thresholds of air_quality_monitor
PM25_THRESHOLD == 350
PM10_THRESHOLD == 1500
CO2_THRESHOLD == 10000
\* LIMIT 10
ViolationLimit == 10

\* _get_thresholds: the metrics of an equipment type with their thresholds,
\* in the order of the dictionary
GetThresholds(equipment_type) ==
    CASE equipment_type = "gas_detector" ->
             << <<"gas_concentration", GAS_DETECTION_THRESHOLD>> >>
      [] equipment_type = "temperature_sensor" ->
             << <<"temperature", TEMPERATURE_THRESHOLD>> >>
      [] equipment_type = "pressure_sensor" ->
             << <<"pressure", PRESSURE_THRESHOLD>> >>
      [] equipment_type = "air_quality_monitor" ->
             << <<"pm25", PM25_THRESHOLD>>, <<"pm10", PM10_THRESHOLD>>,
                <<"co2", CO2_THRESHOLD>> >>
      [] OTHER -> <<>>

\* value / threshold > tenths / 10, for the positive thresholds of the map
RatioExceeds(value, threshold, tenths) == value * 10 > tenths * threshold

\* the severity ladder with the steps themselves counted to the higher level
ThresholdSeverity_Inclusive(value, threshold) ==
    IF value * 10 >= 20 * threshold THEN "emergency"
    ELSE IF value * 10 >= 15 * threshold THEN "critical"
    ELSE IF value * 10 >= 12 * threshold THEN "warning"
    ELSE "info"

\* _threshold_severity
ThresholdSeverity(value, threshold) ==
    IF RatioExceeds(value, threshold, 20) THEN "emergency"
    ELSE IF RatioExceeds(value, threshold, 15) THEN "critical"
    ELSE IF RatioExceeds(value, threshold, 12) THEN "warning"
    ELSE "info"

\* ORDER BY time DESC LIMIT n of a set of rows
RECURSIVE NewestFirst(_, _)
NewestFirst(rows, n) ==
    IF rows = {} \/ n = 0 THEN <<>>
    ELSE LET newest == CHOOSE r \in rows : \A q \in rows : q.time.v <= r.time.v
         IN  <<newest>> \o NewestFirst(rows \ {newest}, n - 1)

\* the WHERE clause with metric_value >= :threshold
Exceeding_Inclusive(rows, equipment_id, metric_name, cutoff_time, threshold) ==
    {r \in rows : /\ r.equipment_id = equipment_id
                  /\ r.metric_name = metric_name
                  /\ r.time.v > cutoff_time
                  /\ r.metric_value >= threshold}

\* the WHERE clause of the query of check_thresholds
Exceeding(rows, equipment_id, metric_name, cutoff_time, threshold) ==
    {r \in rows : /\ r.equipment_id = equipment_id
                  /\ r.metric_name = metric_name
                  /\ r.time.v > cutoff_time
                  /\ r.metric_value > threshold}

\* the dictionaries appended for the rows of one metric
Violation(row, metric_name, threshold) ==
    [time |-> row.time,
     metric_name |-> metric_name,
     metric_value |-> row.metric_value,
     threshold |-> threshold,
     severity |-> ThresholdSeverity(row.metric_value, threshold)]

RECURSIVE Violations(_, _, _, _)
Violations(rows, equipment_id, cutoff_time, thresholds) ==
    IF thresholds = <<>> THEN <<>>
    ELSE LET metric_name == Head(thresholds)[1]
             threshold == Head(thresholds)[2]
             found == NewestFirst(Exceeding(rows, equipment_id, metric_name,
                                            cutoff_time, threshold),
                                  ViolationLimit)
         IN  [k \in 1..Len(found) |-> Violation(found[k], metric_name, threshold)]
                 \o Violations(rows, equipment_id, cutoff_time, Tail(thresholds))

\* db.query(Equipment).filter(...).first() returning whatever row comes first
FindEquipment_AnyRow(table, equipment_id) ==
    IF table = {} THEN {} ELSE {CHOOSE row \in table : TRUE}

\* db.query(Equipment).filter(Equipment.equipment_id == equipment_id).first():
\* the set holding the row, or the empty set for None
FindEquipment(table, equipment_id) == {row \in table : row.equipment_id = equipment_id}

\* one query per metric of the threshold map
RECURSIVE ReadingQueries(_)
ReadingQueries(thresholds) ==
    IF thresholds = <<>> THEN <<>>
    ELSE <<"sensor_readings">> \o ReadingQueries(Tail(thresholds))

\* GET /thresholds/{equipment_id}: check_thresholds and the response around
\* it.  up = FALSE: the store raises on the first query, the except branch
\* returns the empty list.
\* the request is taken; one that repeats the last one is counted
Again(req) == IF req = request THEN repeats + 1 ELSE 0
Serve(req) ==
    /\ Again(req) <= MaxRepeats
    /\ request' = req
    /\ repeats' = Again(req)

CheckThresholds(equipment_id, lookback_minutes, now, up) ==
    /\ Serve([op |-> "check_thresholds", equipment_id |-> equipment_id,
                   lookback_minutes |-> lookback_minutes, now |-> now, up |-> up])
    /\ LET cutoff_time == now - lookback_minutes
           found == FindEquipment(equipment, equipment_id)
           thresholds == GetThresholds((CHOOSE row \in found : TRUE).equipment_type)
       IN  IF ~up \/ found = {}
           THEN /\ answer' = <<>>
                /\ queries' = <<"equipment">>
           ELSE /\ answer' = Violations(store, equipment_id, cutoff_time, thresholds)
                /\ queries' = <<"equipment">> \o ReadingQueries(thresholds)
    /\ status' = 200
    /\ fitted' = FALSE
    /\ UNCHANGED <<call, setup, clock, store, quality, other, equipment, activity, hourly,
                   forest, log>>

\* timedelta(days = n) and timedelta(hours = n), in minutes
Days(n) == n * 1440
Hours(n) == n * 60

\* len(df) < 24
MinBuckets == 24

\* the length test with a table of exactly 24 buckets refused
TooFewBuckets_Inclusive(n) == n <= MinBuckets

TooFewBuckets(n) == n < MinBuckets

\* the WHERE clause of the query of analyze_trends
Buckets(rows, equipment_id, metric_name, cutoff_time) ==
    {r \in rows : /\ r.equipment_id = equipment_id
                  /\ r.metric_name = metric_name
                  /\ r.bucket > cutoff_time}

\* ORDER BY bucket ASC
RECURSIVE OldestFirst(_)
OldestFirst(rows) ==
    IF rows = {} THEN <<>>
    ELSE LET oldest == CHOOSE r \in rows : \A q \in rows : r.bucket <= q.bucket
         IN  <<oldest>> \o OldestFirst(rows \ {oldest})

RECURSIVE Sum(_, _)
Sum(f, n) == IF n = 0 THEN 0 ELSE f[n] + Sum(f, n - 1)

\* the sign of the slope np.polyfit(x, values, 1) fits to x = 0, 1, ..., in
\* exact arithmetic: that of n * sum(x * y) - sum(x) * sum(y)
SlopeIsPositive(df) ==
    LET n == Len(df)
        x == [k \in 1..n |-> k - 1]
        y == [k \in 1..n |-> df[k].avg_value]
        xy == [k \in 1..n |-> x[k] * y[k]]
    IN  n * Sum(xy, n) - Sum(x, n) * Sum(y, n) > 0

\* the dictionary analyze_trends returns; its floating-point statistics
\* (slope, averages, percent change, volatility, minimum, maximum) are left out
TrendSummary(equipment_id, metric_name, period_days, df) ==
    [equipment_id |-> equipment_id,
     metric_name |-> metric_name,
     period_days |-> period_days,
     trend_direction |-> IF SlopeIsPositive(df) THEN "increasing" ELSE "decreasing",
     data_points |-> Len(df)]

\* the dictionaries of the error returns
Error(message) == [error |-> message]

\* an endpoint that answers 200 whatever the engine returned
StatusOf_AlwaysOk(returned) == 200

\* "error" in trends, "error" in prediction: HTTPException(status_code = 400)
StatusOf(returned) == IF "error" \in DOMAIN returned THEN 400 ELSE 200

\* GET /trends/{equipment_id}: analyze_trends and the response around it
AnalyzeTrends(equipment_id, metric_name, period_days, now, up) ==
    /\ Serve([op |-> "analyze_trends", equipment_id |-> equipment_id,
                   metric_name |-> metric_name, period_days |-> period_days,
                   now |-> now, up |-> up])
    /\ LET cutoff_time == now - Days(period_days)
           df == OldestFirst(Buckets(hourly, equipment_id, metric_name, cutoff_time))
           returned ==
               IF ~up THEN Error("store error")
               ELSE IF TooFewBuckets(Len(df))
                    THEN Error("Insufficient data for trend analysis")
                    ELSE TrendSummary(equipment_id, metric_name, period_days, df)
       IN  /\ answer' = returned
           /\ status' = StatusOf(returned)
    /\ queries' = <<"sensor_readings_hourly">>
    /\ fitted' = FALSE
    /\ UNCHANGED <<call, setup, clock, store, quality, other, equipment, activity, hourly,
                   forest, log>>

\* the limits of the scoring of predict_maintenance
CalibrationLimit == 180
AlertLimit == 10
UsageLimit == 10000

\* (datetime.utcnow() - equipment.last_calibration_date).days, None when the
\* equipment was never calibrated
DaysSince(date, now) ==
    IF date = None THEN None ELSE [kind |-> "days", v |-> (now - date.v) \div 1440]

RiskScore(days_since_calibration, recent_alerts, reading_count) ==
    (IF /\ days_since_calibration # None
        /\ days_since_calibration.v # 0
        /\ days_since_calibration.v > CalibrationLimit
     THEN 40 ELSE 0)
        + (IF recent_alerts > AlertLimit THEN 30 ELSE 0)
        + (IF reading_count > UsageLimit THEN 20 ELSE 0)

RiskLevel(risk_score) ==
    IF risk_score > 70 THEN "high" ELSE IF risk_score > 40 THEN "medium" ELSE "low"

Recommendation(risk_score) ==
    IF risk_score > 70 THEN "Schedule maintenance within 1 week"
    ELSE IF risk_score > 40 THEN "Schedule maintenance within 1 month"
    ELSE "Normal operations, routine checks"

\* the dictionary predict_maintenance returns
Prediction(equipment_id, days_since_calibration, recent_alerts, reading_count) ==
    LET risk_score == RiskScore(days_since_calibration, recent_alerts, reading_count)
    IN  [equipment_id |-> equipment_id,
         risk_score |-> risk_score,
         risk_level |-> RiskLevel(risk_score),
         recommendation |-> Recommendation(risk_score),
         days_since_calibration |-> days_since_calibration,
         recent_alerts |-> recent_alerts,
         usage_intensity |-> IF reading_count > UsageLimit THEN "high" ELSE "normal"]

\* predict_maintenance that also files an alert for the equipment it scored
PredictMaintenance_RaisesAlert(equipment_id, now, up) ==
    /\ Serve([op |-> "predict_maintenance", equipment_id |-> equipment_id,
                   now |-> now, up |-> up])
    /\ LET found == FindEquipment(equipment, equipment_id)
           date == (CHOOSE row \in found : TRUE).last_calibration_date
           returned ==
               IF ~up THEN Error("store error")
               ELSE IF found = {} THEN Error("Equipment not found")
               ELSE IF date.kind = "aware" THEN Error("TypeError")
               ELSE Prediction(equipment_id, DaysSince(date, now),
                               activity.recent_alerts, activity.reading_count)
       IN  /\ answer' = returned
           /\ activity' = IF "error" \in DOMAIN returned THEN activity
                           ELSE [activity EXCEPT !.recent_alerts = @ + 1]
           /\ status' = StatusOf(returned)
           /\ queries' = IF "error" \in DOMAIN returned THEN <<"equipment">>
                         ELSE <<"equipment", "alerts", "sensor_readings">>
    /\ fitted' = FALSE
    /\ UNCHANGED <<call, setup, clock, store, quality, other, equipment, hourly,
                   forest, log>>

\* GET /maintenance/{equipment_id}: predict_maintenance and the response
\* around it.  A timezone-aware last_calibration_date, which the column
\* DateTime(timezone = True) yields on PostgreSQL, cannot be subtracted from
\* the naive datetime.utcnow(): TypeError, caught by the except branch.
PredictMaintenance(equipment_id, now, up) ==
    /\ Serve([op |-> "predict_maintenance", equipment_id |-> equipment_id,
                   now |-> now, up |-> up])
    /\ LET found == FindEquipment(equipment, equipment_id)
           date == (CHOOSE row \in found : TRUE).last_calibration_date
           returned ==
               IF ~up THEN Error("store error")
               ELSE IF found = {} THEN Error("Equipment not found")
               ELSE IF date.kind = "aware" THEN Error("TypeError")
               ELSE Prediction(equipment_id, DaysSince(date, now),
                               activity.recent_alerts, activity.reading_count)
       IN  /\ answer' = returned
           /\ status' = StatusOf(returned)
           /\ queries' = IF "error" \in DOMAIN returned THEN <<"equipment">>
                         ELSE <<"equipment", "alerts", "sensor_readings">>
    /\ fitted' = FALSE
    /\ UNCHANGED <<call, setup, clock, store, quality, other, equipment, activity, hourly,
                   forest, log>>

(* ------------------------- detect_anomalies --------------------------- *)
\* if len(df) < 50
MinReadings == 50
\* contamination = 0.05: one reading in twenty
ContaminationParts == 20
\* the steps of _calculate_severity, -0.5 and -0.3, in hundredths
CriticalScore == -50
WarningScore == -30

\* the steps counted to the more severe side
CalculateSeverity_Inclusive(anomaly_score) ==
    IF anomaly_score <= CriticalScore THEN "critical"
    ELSE IF anomaly_score <= WarningScore THEN "warning"
    ELSE "info"

\* _calculate_severity
CalculateSeverity(anomaly_score) ==
    IF anomaly_score < CriticalScore THEN "critical"
    ELSE IF anomaly_score < WarningScore THEN "warning"
    ELSE "info"

\* the guard with 50 readings counted as too few
TooFewReadings_Inclusive(n) == n <= MinReadings

TooFewReadings(n) == n < MinReadings

\* the WHERE clause of the query of detect_anomalies
InWindow(rows, equipment_id, metric_name, cutoff_time) ==
    {r \in rows : /\ r.equipment_id = equipment_id
                  /\ r.metric_name = metric_name
                  /\ r.time.v > cutoff_time}

\* ORDER BY time ASC
RECURSIVE Ascending(_)
Ascending(rows) ==
    IF rows = {} THEN <<>>
    ELSE LET oldest == CHOOSE r \in rows : \A q \in rows : r.time.v <= q.time.v
         IN  <<oldest>> \o Ascending(rows \ {oldest})

\* iso_forest.score_samples(features), in hundredths: the forest is seeded
\* (random_state = 42), so the score of a reading is fixed by the data
ScoreSamples(df) == [k \in 1..Len(df) |-> forest[df[k].time.v]]

\* the j-th smallest of the scores, j from 1
Smallest(scores, j) ==
    LET AtMost(v) == Cardinality({k \in DOMAIN scores : scores[k] <= v})
        values == {scores[k] : k \in DOMAIN scores}
    IN  CHOOSE v \in values :
            /\ AtMost(v) >= j
            /\ \A w \in values : AtMost(w) >= j => v <= w

\* offset_ = np.percentile(scores, 100 * contamination), interpolated linearly
\* between the two scores around position contamination * (n - 1); the value
\* is ContaminationParts times the offset
Offset(scores) ==
    LET n == Len(scores)
        below == (n - 1) \div ContaminationParts
        part == (n - 1) % ContaminationParts
        lo == Smallest(scores, below + 1)
        hi == Smallest(scores, Min(below + 2, n))
    IN  ContaminationParts * lo + part * (hi - lo)

\* iso_forest.fit_predict(features): -1 where score_samples is below offset_
FitPredict(scores) ==
    LET offset == Offset(scores)
    IN  [k \in DOMAIN scores |->
            IF ContaminationParts * scores[k] < offset THEN -1 ELSE 1]

\* the dictionary appended for a flagged reading
Anomaly(row, score) ==
    [time |-> row.time, metric_value |-> row.metric_value,
     anomaly_score |-> score, severity |-> CalculateSeverity(score)]

\* the loop over zip(predictions, anomaly_scores), from index k on
RECURSIVE Anomalies(_, _, _, _)
Anomalies(df, predictions, anomaly_scores, k) ==
    IF k > Len(df) THEN <<>>
    ELSE (IF predictions[k] = -1
          THEN <<Anomaly(df[k], anomaly_scores[k])>> ELSE <<>>)
         \o Anomalies(df, predictions, anomaly_scores, k + 1)

\* detect_anomalies behind GET /anomalies/{equipment_id}: the endpoint wraps
\* the list in a 200 response; up is whether the store answers the query
DetectAnomalies(equipment_id, metric_name, lookback_hours, now, up) ==
    /\ Serve([op |-> "detect_anomalies", equipment_id |-> equipment_id,
              metric_name |-> metric_name, lookback_hours |-> lookback_hours,
              now |-> now, up |-> up])
    /\ LET cutoff_time == now - Hours(lookback_hours)
           df == Ascending(InWindow(store, equipment_id, metric_name, cutoff_time))
           anomaly_scores == ScoreSamples(df)
       IN  IF ~up \/ TooFewReadings(Len(df))
           THEN /\ answer' = <<>>
                /\ fitted' = FALSE
           ELSE /\ answer' = Anomalies(df, FitPredict(anomaly_scores), anomaly_scores, 1)
                /\ fitted' = TRUE
    /\ queries' = <<"sensor_readings">>
    /\ status' = 200
    /\ UNCHANGED <<call, setup, clock, store, quality, other, equipment, activity, hourly,
                   forest, log>>

(* ----------------------- inputs of the analytics ---------------------- *)
\* most rows of one equipment and metric in sensor_readings
MaxRows == 12
\* most hourly buckets of one equipment and metric
MaxBuckets == 25

\* the minute the requests are served at; stored times are minutes before it
AnalyticsClock == {0}

\* metric values around the steps of the severity ladder of a threshold: the
\* threshold itself, 1.2, 1.5 and 2.0 times it and their upper neighbours, and
\* 2.5 times it
ValueProbes(threshold) ==
    << threshold, threshold + 1,
       (12 * threshold) \div 10, (12 * threshold) \div 10 + 1,
       (15 * threshold) \div 10, (15 * threshold) \div 10 + 1,
       2 * threshold, 2 * threshold + 1,
       (25 * threshold) \div 10 >>

Row(e, m, x, t) ==
    [time |-> Naive(t), equipment_id |-> e, metric_name |-> m, metric_value |-> x]

\* rows that a check of TEST-001 must leave out, and rows of an air quality
\* monitor: two over the pm25 threshold, one on the pm10 threshold, one over
\* the co2 threshold
OtherRows ==
    { Row("TEST-001", "temperature", 9000, 0),
      Row("GAS-002", "gas_concentration", 250, 0),
      Row("AQ-001", "gas_concentration", 250, 0),
      Row("AQ-001", "pm25", PM25_THRESHOLD + 1, -1),
      Row("AQ-001", "pm25", 2 * PM25_THRESHOLD, 0),
      Row("AQ-001", "pm10", PM10_THRESHOLD, 0),
      Row("AQ-001", "co2", CO2_THRESHOLD + 1, -2) }

\* n gas readings of TEST-001, one a minute, the newest at the minute of the
\* request, their values running through the probes from position shift on
ThresholdTable(n, shift) ==
    LET probes == ValueProbes(GAS_DETECTION_THRESHOLD)
    IN  {Row("TEST-001", "gas_concentration",
             probes[((k + shift) % Len(probes)) + 1], 0 - k) : k \in 0..(n - 1)}
            \cup OtherRows

ThresholdTables ==
    {ThresholdTable(n, shift) :
        n \in 0..MaxRows, shift \in 0..(Len(ValueProbes(GAS_DETECTION_THRESHOLD)) - 1)}

ThresholdEquipment ==
    { Equipment("TEST-001", "gas_detector", None),
      Equipment("GAS-002", "gas_detector", None),
      Equipment("AQ-001", "air_quality_monitor", None),
      Equipment("LOC-001", "location_tracker", None) }

\* n hourly buckets of TEST-001 temperature, the newest at the hour of the
\* request, rising, falling or flat, and one bucket of another equipment
HourlyTable(n, shape) ==
    {[equipment_id |-> "TEST-001", metric_name |-> "temperature",
      bucket |-> 0 - Hours(k),
      avg_value |-> CASE shape = "rising"  -> 250 - k
                      [] shape = "falling" -> 250 + k
                      [] OTHER             -> 250] : k \in 0..(n - 1)}
        \cup {[equipment_id |-> "AQ-001", metric_name |-> "temperature",
               bucket |-> 0, avg_value |-> 250]}

HourlyTables ==
    {HourlyTable(n, shape) : n \in 0..MaxBuckets, shape \in {"rising", "falling", "flat"}}

\* last_calibration_date: never, today, 180, 181 and 200 days ago, and 200
\* days ago as the timezone-aware value a timestamptz column returns
CalibrationDates ==
    {None, Aware(0 - Days(200))}
        \cup {Naive(0 - Days(d)) : d \in {0, CalibrationLimit, CalibrationLimit + 1, 200}}

Activities ==
    [recent_alerts : {0, AlertLimit, AlertLimit + 1, 15},
     reading_count : {500, UsageLimit, UsageLimit + 1}]

\* what the requests ask for: the registered equipment and an unknown one,
\* the default window and period and a short one
RequestIds == {row.equipment_id : row \in equipment} \cup {"NONEXISTENT"}
Lookbacks == {5, 30}
Periods == {1, 30}
LookbackHours == {1, 24}

\* most readings of one equipment and metric in the window of detect_anomalies
MaxReadings == 51

\* outlier scores around the steps of the severity ladder
ScoreProbes == <<-70, -51, -50, -49, -31, -30, -29>>

\* profile 0 is a flat series; profile j > 0 has three outlying readings that
\* score at the probes from the j-th on
Flat == 0
Profiles == 0..Len(ScoreProbes)

\* n temperature readings of TEST-001, one every step minutes, the newest at
\* the minute of the request.  A flat series has one value throughout; the
\* others have three outlying readings among the oldest four.
AnomalyTable(n, step, profile) ==
    {Row("TEST-001", "temperature",
         IF profile # Flat /\ k \in {n - 1, n - 2, n - 4} THEN 900 ELSE 250,
         0 - k * step) : k \in 0..(n - 1)}

\* the scores a forest fitted to such a table gives: every reading of a flat
\* series has the same features and so the same score; the outlying readings
\* score at three consecutive probes, the rest nearer to zero
Forest(n, step, profile) ==
    [t \in {0 - k * step : k \in 0..(n - 1)} |->
        IF profile = Flat THEN -50
        ELSE LET k == (0 - t) \div step
                 Probe(d) == ScoreProbes[((profile - 1 + d) % Len(ScoreProbes)) + 1]
             IN  CASE k = n - 1 -> Probe(0)
                   [] k = n - 2 -> Probe(1)
                   [] k = n - 4 -> Probe(2)
                   [] OTHER     -> -25]

\* the engine serving requests, no ingestion running
InitServing ==
    /\ InitPipeline({}, 0, AnalyticsClock)
    /\ resend = NoResend
    /\ other = NoOther
    /\ InitEngine

InitThresholds ==
    /\ InitServing
    /\ forest = NoForest
    /\ store \in ThresholdTables
    /\ equipment = ThresholdEquipment
    /\ activity = NoActivity
    /\ hourly = {}

InitTrends ==
    /\ InitServing
    /\ forest = NoForest
    /\ store = {}
    /\ equipment = FixtureEquipment
    /\ activity = NoActivity
    /\ hourly \in HourlyTables

InitMaintenance ==
    /\ InitServing
    /\ forest = NoForest
    /\ store = {}
    /\ equipment \in {{Equipment("TEST-001", "gas_detector", d)} : d \in CalibrationDates}
    /\ activity \in Activities
    /\ hourly = {}

\* tables of 0, 49, 50 and more readings, a minute or half an hour apart
InitAnomalies ==
    /\ InitServing
    /\ \E n \in {0, MinReadings - 1, MinReadings, MaxReadings}, step \in {1, 30},
          profile \in Profiles :
          /\ store = AnomalyTable(n, step, profile)
          /\ forest = Forest(n, step, profile)
    /\ equipment = FixtureEquipment
    /\ activity = NoActivity
    /\ hourly = {}

NextAnalytics ==
    \/ \E e \in RequestIds, h \in LookbackHours, now \in clock, up \in BOOLEAN :
          DetectAnomalies(e, "temperature", h, now, up)
    \/ \E e \in RequestIds, m \in Lookbacks, now \in clock, up \in BOOLEAN :
          CheckThresholds(e, m, now, up)
    \/ \E e \in RequestIds, d \in Periods, now \in clock, up \in BOOLEAN :
          AnalyzeTrends(e, "temperature", d, now, up)
    \/ \E e \in RequestIds, now \in clock, up \in BOOLEAN :
          PredictMaintenance(e, now, up)

SpecThresholds == InitThresholds /\ [][NextAnalytics]_vars
SpecTrends == InitTrends /\ [][NextAnalytics]_vars
SpecMaintenance == InitMaintenance /\ [][NextAnalytics]_vars
SpecAnomalies == InitAnomalies /\ [][NextAnalytics]_vars

\* the four operations over all of these tables
InitReadOnly == InitAnomalies \/ InitThresholds \/ InitTrends \/ InitMaintenance
SpecReadOnly == InitReadOnly /\ [][NextAnalytics]_vars

(* ------------------------ vocabulary of the claims -------------------- *)
Returned == pc = "returned"
Succeeded == pc = "returned" /\ result.success

Count(seq, P(_)) == Cardinality({k \in 1..Len(seq) : P(seq[k])})

RECURSIVE Flatten(_)
Flatten(chunks) ==
    IF chunks = <<>> THEN <<>> ELSE Head(chunks) \o Flatten(Tail(chunks))

IsPrefix(p, q) == Len(p) <= Len(q) /\ p = SubSeq(q, 1, Len(p))

\* the four ways of failing validation
FailsValidation(r) ==
    \/ r.metric_value = Missing
    \/ r.metric_value.kind # "num"
    \/ r.equipment_id \notin Registry
    \/ ~InDocumentedRange(r.metric_name, r.metric_value.v)

\* the rows a batch leaves once its invalid readings are taken out
RECURSIVE ValidRows(_)
ValidRows(rs) ==
    IF rs = <<>> THEN <<>>
    ELSE IF FailsValidation(Head(rs)) THEN ValidRows(Tail(rs))
         ELSE <<[time |-> CASE Head(rs).time.kind = "iso"  -> Naive(Head(rs).time.v)
                            [] Head(rs).time.kind = "isoZ" -> Aware(Head(rs).time.v)
                            [] OTHER                       -> Head(rs).time,
                 equipment_id |-> Head(rs).equipment_id,
                 metric_name |-> Head(rs).metric_name,
                 metric_value |-> Head(rs).metric_value.v]>> \o ValidRows(Tail(rs))

IsLate(r) == r.time.v < cutoff

\* position k holds the first record of its natural key
IsFirst(seq, k) == \A j \in 1..(k - 1) : NaturalKey(seq[j]) # NaturalKey(seq[k])
FirstPositions(seq) == {k \in 1..Len(seq) : IsFirst(seq, k)}

\* seq restricted to the positions in ks, in order
RECURSIVE Restrict(_, _, _)
Restrict(seq, ks, k) ==
    IF k > Len(seq) THEN <<>>
    ELSE (IF k \in ks THEN <<seq[k]>> ELSE <<>>) \o Restrict(seq, ks, k + 1)

(* ------------------------------- claims ------------------------------- *)
\* C1: every successful ingest_batch call returns counts with
\* total_received = total_inserted + invalid_count + duplicate_count.
C1_CountsBalance ==
    Succeeded =>
        result.total_received =
            result.total_inserted + result.invalid_count + result.duplicate_count

\* C2: a validated, deduplicated record older than the cutoff is still written
\* to the store and is counted once in late_arrival_count.
C2_LateStillInserted ==
    Succeeded =>
        /\ \A k \in 1..Len(unique_readings) :
              IsLate(unique_readings[k]) =>
                  NaturalKey(unique_readings[k]) \in StoredKeys(store)
        /\ stats.late_arrivals - stats0.late_arrivals = Count(unique_readings, IsLate)

\* C3: every successful call has late_arrival_count <= total_inserted.
C3_LateWithinInserted ==
    Succeeded => result.late_arrival_count <= result.total_inserted

\* the survivors of deduplication are the first records of their keys, in input
\* order, with pairwise distinct keys
C4_SurvivorsAreFirsts ==
    Returned =>
        /\ unique_readings =
              Restrict(validated_readings, FirstPositions(validated_readings), 1)
        /\ \A j, k \in 1..Len(unique_readings) :
              j # k => NaturalKey(unique_readings[j]) # NaturalKey(unique_readings[k])

\* C4: of the validated records with one natural key exactly the first in
\* input order survives, the survivors keep their order and have distinct
\* keys, and duplicate_count is the number of records removed.
C4_Deduplication ==
    /\ C4_SurvivorsAreFirsts
    /\ Succeeded =>
          result.duplicate_count =
              Len(validated_readings)
                  - Cardinality({NaturalKey(validated_readings[k]) :
                                    k \in 1..Len(validated_readings)})

C6_RangeInclusive ==
    /\ \A row \in store : InDocumentedRange(row.metric_name, row.metric_value)
    /\ Returned =>
          /\ \A k \in 1..Len(readings) :
                InDocumentedRange(readings[k].metric_name, readings[k].metric_value.v)
                    <=> (\E j \in 1..Len(validated_readings) :
                            /\ validated_readings[j].metric_name = readings[k].metric_name
                            /\ validated_readings[j].metric_value
                                  = readings[k].metric_value.v)
          /\ stats.invalid - stats0.invalid
                = Cardinality({k \in 1..Len(readings) :
                     ~InDocumentedRange(readings[k].metric_name,
                                        readings[k].metric_value.v)})
          /\ result.success /\ validated_readings # <<>> => store # {}
\* a value exactly on the upper bound of its metric was accepted and stored
C6_Witness ==
    /\ Succeeded
    /\ \E row \in store :
          /\ row.metric_name = "humidity"
          /\ row.metric_value = DocumentedRange("humidity")[2]

\* C7: every call to ingest_batch appends exactly one QualityMetric record:
\* after n calls the quality log holds n records.
C7_OneQualityMetricPerCall ==
    pc \in {"idle", "returned"} => Len(quality) = calls

\* C8: the counts a call returns describe the batch of that call only.
C8_CountersResetPerCall ==
    Succeeded =>
        /\ result.invalid_count = Len(readings) - Len(validated_readings)
        /\ result.duplicate_count = Len(validated_readings) - Len(unique_readings)
        /\ result.late_arrival_count = Count(unique_readings, IsLate)

\* C9: every insert sent to the store carries between 1 and MAX_BATCH_SIZE
\* rows, and the chunks sent, concatenated in order, are the list handed to
\* the bulk insert: a prefix of it while the loop runs, all of it at the end.
C9_ChunkedInsert ==
    /\ \A k \in 1..Len(sent) : Len(sent[k]) >= 1 /\ Len(sent[k]) <= MAX_BATCH_SIZE
    /\ IsPrefix(Flatten(sent), on_time)
    /\ pc = "insert" => Len(Flatten(sent)) = Min(i, Len(on_time))
    /\ (pc = "quality" \/ Succeeded) => Flatten(sent) = on_time
\* three rows went out as a full chunk and a shorter last one
C9_Witness ==
    /\ Succeeded
    /\ Len(sent) = 2
    /\ Len(sent[1]) = 2
    /\ Len(sent[2]) = 1

\* C10: when the store fails on chunk k no later chunk is sent, and the call
\* returns success = false with an error.
C10_FailureStopsInserts ==
    failed_at > 0 =>
        /\ pc = "returned"
        /\ Len(sent) = failed_at
        /\ result.success = FALSE
        /\ result.error = "store error"
        /\ result.total_received = Len(readings)
\* the first of several chunks failed, with rows still to send
C10_Witness ==
    /\ failed_at = 1
    /\ Len(on_time) > Len(Flatten(sent))

\* every earlier call on the instance returned success
EarlierCallsSucceeded == completed - (IF Succeeded THEN 1 ELSE 0) = calls - 1

C12_ConcurrentInsertsSafe ==
    /\ \A r1 \in store : \A r2 \in store : NaturalKey(r1) = NaturalKey(r2) => r1 = r2
    /\ failed_at = 0 =>
          \A k \in 1..Len(Flatten(sent)) : NaturalKey(Flatten(sent)[k]) \in StoredKeys(store)
    /\ other.pc \in {"insert", "quality", "succeeded"} =>
          \A k \in 1..Min(other.i, Len(other.on_time)) :
              NaturalKey(other.on_time[k]) \in StoredKeys(store)
    /\ Returned /\ ~result.success => failed_at > 0
    /\ Succeeded => Flatten(sent) = on_time
\* both calls are between two of their chunks, and the key they have both
\* sent is stored with the value of one of them
C12_Witness ==
    /\ pc = "insert"
    /\ other.pc = "insert"
    /\ i > 0
    /\ other.i > 0
    /\ NaturalKey(on_time[1]) = NaturalKey(other.on_time[1])
    /\ on_time[1] # other.on_time[1]
    /\ other.on_time[1] \in store

\* each stage has run on all the output of the stage before it
StagesDone ==
    /\ validated_readings = ValidateReadings(readings)
    /\ unique_readings = Deduplicate(validated_readings)
    /\ (pc \in {"insert", "quality"} \/ Succeeded) =>
          on_time = OnTime(unique_readings, cutoff)

\* C13: within one call the stages run in the order validation,
\* deduplication, timeliness, bulk insert, quality accounting, each on what the
\* stage before it left: rows go to the store only when all the input is
\* validated and deduplicated, they are rows that survived, and the
\* QualityMetric is written only after the last chunk insert.
C13_StagesInOrder ==
    /\ [](pc # "idle" =>
            /\ StagesDone
            /\ IsPrefix(Flatten(sent), on_time)
            /\ \A k \in 1..Len(on_time) :
                  \E j \in 1..Len(unique_readings) : on_time[k] = unique_readings[j])
    /\ [][sent' # sent /\ pc # "returned" => pc = "insert" /\ StagesDone]_vars
    /\ [][store' # store => pc = "insert" /\ StagesDone /\ sent' # sent]_vars
    /\ [][quality' # quality =>
            pc = "quality" /\ failed_at = 0 /\ Flatten(sent) = on_time]_vars
\* a batch that lost a record to deduplication went out in two chunks, and
\* its quality row is written
C13_Witness ==
    /\ Succeeded
    /\ Len(sent) = 2
    /\ Len(quality) = 1
    /\ Len(unique_readings) < Len(validated_readings)

\* every record of the running batch is valid, for existing equipment and on
\* time, and no two share a natural key
CleanBatch ==
    /\ \A k \in 1..Len(readings) :
          /\ ~FailsValidation(readings[k])
          /\ readings[k].time.kind \in {"naive", "aware", "iso", "isoZ"}
          /\ readings[k].time.v >= cutoff
    /\ \A j \in 1..Len(readings) : \A k \in 1..Len(readings) :
          j # k => NaturalKey(ValidRows(readings)[j]) # NaturalKey(ValidRows(readings)[k])

\* C14: a batch of valid, on-time records of existing equipment with distinct
\* natural keys returns success with total_inserted = total_received,
\* invalid_count = 0 and duplicate_count = 0, and all its records are stored.
C14_CleanBatchAllInserted ==
    Returned /\ failed_at = 0 /\ readings # <<>> /\ CleanBatch =>
        /\ result.success
        /\ result.total_inserted = result.total_received
        /\ result.invalid_count = 0
        /\ result.duplicate_count = 0
        /\ \A k \in 1..Len(readings) :
              NaturalKey(ValidRows(readings)[k]) \in StoredKeys(store)

(* ----------------- vocabulary of the analytics claims ----------------- *)
Registered(e) == \E row \in equipment : row.equipment_id = e
TypeOf(e) == (CHOOSE row \in equipment : row.equipment_id = e).equipment_type

\* the documented threshold map, in tenths
DocumentedThresholds(type) ==
    CASE type = "gas_detector"        -> {<<"gas_concentration", 100>>}
      [] type = "temperature_sensor"  -> {<<"temperature", 600>>}
      [] type = "pressure_sensor"     -> {<<"pressure", 1500>>}
      [] type = "air_quality_monitor" -> {<<"pm25", 350>>, <<"pm10", 1500>>,
                                          <<"co2", 10000>>}
      [] OTHER                        -> {}

\* a threshold check of registered equipment, answered with the store up
ThresholdsChecked ==
    /\ request.op = "check_thresholds"
    /\ request.up
    /\ Registered(request.equipment_id)

\* C15: the severity of a threshold violation follows the ratio
\* value / threshold with strict comparisons: above 2.0 emergency, above 1.5
\* up to 2.0 critical, above 1.2 up to 1.5 warning, up to 1.2 info.
C15_SeverityByRatio ==
    request.op = "check_thresholds" =>
        \A k \in 1..Len(answer) :
            LET v == answer[k].metric_value
                th == answer[k].threshold
                s == answer[k].severity
            IN  /\ s = "emergency" <=> 10 * v > 20 * th
                /\ s = "critical"  <=> 10 * v > 15 * th /\ 10 * v <= 20 * th
                /\ s = "warning"   <=> 10 * v > 12 * th /\ 10 * v <= 15 * th
                /\ s = "info"      <=> 10 * v <= 12 * th
\* one answer reports 25.0 against 10.0 as emergency, exactly twice the
\* threshold as critical, exactly 1.5 times as warning and 1.2 times as info
C15_Witness ==
    /\ ThresholdsChecked
    /\ \E k \in 1..Len(answer) :
          answer[k].metric_value = 250 /\ answer[k].threshold = 100
              /\ answer[k].severity = "emergency"
    /\ \E k \in 1..Len(answer) :
          answer[k].metric_value = 200 /\ answer[k].severity = "critical"
    /\ \E k \in 1..Len(answer) :
          answer[k].metric_value = 150 /\ answer[k].severity = "warning"
    /\ \E k \in 1..Len(answer) :
          answer[k].metric_value = 120 /\ answer[k].severity = "info"

\* the stored readings of the requested equipment and of metric m inside the
\* lookback window whose value is above th
Qualifying(m, th) ==
    {r \in store : /\ r.equipment_id = request.equipment_id
                   /\ r.metric_name = m
                   /\ r.time.v > request.now - request.lookback_minutes
                   /\ r.metric_value > th}
Reported(m) == {k \in 1..Len(answer) : answer[k].metric_name = m}

\* C16: check_thresholds reports, for each metric with a threshold for the
\* type of the equipment, only stored readings of that equipment and metric
\* inside the lookback window with a value strictly above the threshold, at
\* most 10 of them, the most recent ones, most recent first; a reading on the
\* threshold is never reported.
C16_ReportedViolations ==
    ThresholdsChecked =>
        LET documented == DocumentedThresholds(TypeOf(request.equipment_id))
        IN  /\ \A k \in 1..Len(answer) :
                  /\ answer[k].metric_value # answer[k].threshold
                  /\ \E p \in documented :
                        /\ answer[k].metric_name = p[1]
                        /\ answer[k].threshold = p[2]
                        /\ \E r \in Qualifying(p[1], p[2]) :
                              /\ r.time = answer[k].time
                              /\ r.metric_value = answer[k].metric_value
            /\ \A p \in documented :
                  /\ Cardinality(Reported(p[1])) = Min(10, Cardinality(Qualifying(p[1], p[2])))
                  /\ \A j \in Reported(p[1]) : \A k \in Reported(p[1]) :
                        j < k => answer[j].time.v > answer[k].time.v
                  /\ \A r \in Qualifying(p[1], p[2]) :
                        (\A k \in Reported(p[1]) : answer[k].time # r.time)
                            => \A k \in Reported(p[1]) : answer[k].time.v > r.time.v
\* eleven readings in the window are above the threshold and ten are
\* reported, and a reading on the threshold is in the window
C16_Witness ==
    /\ ThresholdsChecked
    /\ Len(answer) = 10
    /\ Cardinality(Qualifying("gas_concentration", 100)) = 11
    /\ \E r \in store :
          /\ r.equipment_id = request.equipment_id
          /\ r.metric_name = "gas_concentration"
          /\ r.metric_value = 100
          /\ r.time.v > request.now - request.lookback_minutes

\* C17: check_thresholds for an equipment id that is not registered returns
\* the empty sequence, no error, and queries no readings.
C17_UnknownEquipmentNoViolations ==
    request.op = "check_thresholds" /\ ~Registered(request.equipment_id) =>
        /\ answer = <<>>
        /\ status = 200
        /\ \A k \in 1..Len(queries) : queries[k] # "sensor_readings"
\* the unknown id was asked for while the store held readings over a threshold
C17_Witness ==
    /\ request.op = "check_thresholds"
    /\ request.up
    /\ request.equipment_id = "NONEXISTENT"
    /\ queries = <<"equipment">>
    /\ \E r \in store : r.metric_name = "gas_concentration" /\ r.metric_value > 100

\* a maintenance prediction for registered equipment, with the store up
MaintenancePredicted ==
    /\ request.op = "predict_maintenance"
    /\ request.up
    /\ Registered(request.equipment_id)

\* whole days from the last calibration of the requested equipment to the
\* request, 0 when it was never calibrated
DaysSinceCalibration ==
    LET date == (CHOOSE row \in equipment :
                    row.equipment_id = request.equipment_id).last_calibration_date
    IN  IF date.kind = "none" THEN 0 ELSE (request.now - date.v) \div 1440

\* the documented score: 40 for more than 180 days since calibration, 30 for
\* more than 10 alerts, 20 for more than 10000 readings
DocumentedScore ==
    (IF DaysSinceCalibration > 180 THEN 40 ELSE 0)
        + (IF activity.recent_alerts > 10 THEN 30 ELSE 0)
        + (IF activity.reading_count > 10000 THEN 20 ELSE 0)

\* the answer carries the documented score and the level that goes with it
ScoredAsDocumented ==
    /\ "risk_score" \in DOMAIN answer
    /\ answer.risk_score = DocumentedScore
    /\ answer.risk_level = "high" <=> answer.risk_score > 70
    /\ answer.risk_level = "medium" <=> answer.risk_score > 40 /\ answer.risk_score <= 70
    /\ answer.risk_level = "low" <=> answer.risk_score <= 40
    /\ answer.risk_level = "high" =>
          /\ DaysSinceCalibration > 180
          /\ activity.recent_alerts > 10
          /\ activity.reading_count > 10000

\* the equipment was never calibrated, or its calibration date comes back
\* from the store without a timezone
CalibrationDateNaive ==
    \A row \in equipment : row.last_calibration_date.kind \in {"none", "naive"}

\* the scoring is the documented one where the calibration date is naive
C18_ScoreOfNaiveDates ==
    MaintenancePredicted /\ CalibrationDateNaive => ScoredAsDocumented

\* C18: predict_maintenance returns risk_score = 40 (more than 180 days since
\* calibration) + 30 (more than 10 alerts) + 20 (more than 10000 readings),
\* with risk_level high above 70, medium above 40 up to 70, low otherwise;
\* high only when all three conditions hold.
C18_RiskScore ==
    MaintenancePredicted => ScoredAsDocumented

\* C19: predict_maintenance for an equipment id that is not registered
\* returns the not-found error, answered as a 4xx, without risk_score or
\* risk_level; every successful answer carries both and no error.
C19_UnknownEquipmentNotFound ==
    request.op = "predict_maintenance" =>
        /\ request.up /\ ~Registered(request.equipment_id) =>
              /\ answer = [error |-> "Equipment not found"]
              /\ status >= 400 /\ status < 500
        /\ "error" \in DOMAIN answer =>
              /\ "risk_score" \notin DOMAIN answer
              /\ "risk_level" \notin DOMAIN answer
              /\ status # 200
        /\ status = 200 =>
              /\ "error" \notin DOMAIN answer
              /\ "risk_score" \in DOMAIN answer
              /\ "risk_level" \in DOMAIN answer
\* the unknown id was asked for where the registered equipment scores low
C19_Witness ==
    /\ request.op = "predict_maintenance"
    /\ request.up
    /\ request.equipment_id = "NONEXISTENT"
    /\ answer = [error |-> "Equipment not found"]
    /\ activity.recent_alerts = 0
    /\ \A row \in equipment : row.last_calibration_date.kind = "none"

\* the hourly buckets of the requested equipment and metric inside the period
BucketsInPeriod ==
    Cardinality({r \in hourly : /\ r.equipment_id = request.equipment_id
                                /\ r.metric_name = request.metric_name
                                /\ r.bucket > request.now - request.period_days * 1440})

\* C20: analyze_trends with fewer than 24 hourly buckets in the period, zero
\* included, returns the insufficient-data error, answered as a 4xx; with 24
\* or more it returns a trend summary; it never raises.
C20_InsufficientTrendData ==
    request.op = "analyze_trends" =>
        /\ status # 500
        /\ request.up /\ BucketsInPeriod < 24 =>
              /\ answer = [error |-> "Insufficient data for trend analysis"]
              /\ status >= 400 /\ status < 500
        /\ request.up /\ BucketsInPeriod >= 24 =>
              /\ "error" \notin DOMAIN answer
              /\ answer.data_points = BucketsInPeriod
              /\ answer.trend_direction \in {"increasing", "decreasing"}
              /\ status = 200
\* 23 buckets lie in the period and the answer is the insufficient-data error
C20_Witness ==
    /\ request.op = "analyze_trends"
    /\ request.up
    /\ BucketsInPeriod = 23
    /\ answer = [error |-> "Insufficient data for trend analysis"]
    /\ status = 400

(* ------------------------- anomaly detection -------------------------- *)
AnomaliesServed == request.op = "detect_anomalies"

\* the readings of the requested equipment and metric in the lookback window
ReadingsInWindow ==
    {r \in store : /\ r.equipment_id = request.equipment_id
                   /\ r.metric_name = request.metric_name
                   /\ r.time.v > request.now - 60 * request.lookback_hours}

\* C21: with fewer than 50 readings of the equipment and metric in the
\* lookback window detect_anomalies returns an empty sequence, fits no model
\* and reports no error; with 50 or more the detector is run.
C21_FewReadingsNoDetection ==
    AnomaliesServed /\ request.up =>
        /\ Cardinality(ReadingsInWindow) < 50 =>
              answer = <<>> /\ ~fitted /\ status = 200
        /\ Cardinality(ReadingsInWindow) >= 50 => fitted
\* 51 readings stored half an hour apart, 48 of them inside the 24 hours
C21_Witness ==
    /\ AnomaliesServed
    /\ request.up
    /\ Cardinality(store) > 50
    /\ Cardinality(ReadingsInWindow) < 50
    /\ Cardinality(ReadingsInWindow) > 2
    /\ answer = <<>>

\* a run of the detector that flagged nothing: the readings of a flat series
\* all score alike, none below the offset
DetectorFoundNothing == AnomaliesServed /\ fitted /\ answer = <<>> /\ status = 200

\* what the caller has of such a run: the list and the HTTP status
ZeroAnomaliesFound == <<<<>>, 200>>

\* C22: in anomaly detection as in trend analysis, too little data gives an
\* explicit result that the caller can tell from a run that found no anomaly.
C22_InsufficientDataExplicit ==
    /\ AnomaliesServed /\ request.up /\ Cardinality(ReadingsInWindow) < 50 =>
          <<answer, status>> # ZeroAnomaliesFound
    /\ request.op = "analyze_trends" /\ request.up /\ BucketsInPeriod < 24 =>
          "error" \in DOMAIN answer /\ status # 200

\* the readings in the window that score below a given score
ScoringBelow(score) == {r \in ReadingsInWindow : forest[r.time.v] < score}

\* C28: every anomaly detect_anomalies returns is a reading the model flagged,
\* one of the lowest-scoring twentieth of the window, and its severity follows
\* its score: below -0.5 critical, from -0.5 to below -0.3 warning, from -0.3
\* on info, never emergency.
C28_AnomalySeverity ==
    AnomaliesServed =>
        \A k \in 1..Len(answer) :
            LET a == answer[k]
            IN  /\ \E r \in ReadingsInWindow :
                      /\ r.time = a.time
                      /\ r.metric_value = a.metric_value
                      /\ forest[r.time.v] = a.anomaly_score
                /\ 20 * Cardinality(ScoringBelow(a.anomaly_score))
                      <= Cardinality(ReadingsInWindow) - 1
                /\ a.severity \in {"critical", "warning", "info"}
                /\ a.severity = "critical" <=> a.anomaly_score < -50
                /\ a.severity = "warning" <=>
                      -50 <= a.anomaly_score /\ a.anomaly_score < -30
                /\ a.severity = "info" <=> a.anomaly_score >= -30
\* three readings were flagged: one scoring -0.51, one exactly -0.5
C28_Witness ==
    /\ AnomaliesServed
    /\ Len(answer) = 3
    /\ \E k \in 1..Len(answer) :
          answer[k].anomaly_score = -50 /\ answer[k].severity = "warning"
    /\ \E k \in 1..Len(answer) :
          answer[k].anomaly_score = -51 /\ answer[k].severity = "critical"

(* ----------------------- the engine as a reader ----------------------- *)
\* C23: none of the four analytics operations inserts, updates or deletes a
\* reading, an equipment row, an alert or a quality record, and the same call
\* made again on the unchanged store at the same clock returns the same result.
C23_ReadOnlyIdempotent ==
    /\ [][UNCHANGED <<store, quality, equipment, activity, hourly>>]_vars
    /\ [][repeats' > repeats => answer' = answer /\ status' = status]_vars
\* a detection that flagged three readings was asked for again
C23_Witness ==
    /\ repeats = 1
    /\ AnomaliesServed
    /\ fitted
    /\ Len(answer) = 3

\* C24: when the store cannot be reached or a query fails during an analytics
\* operation, the caller gets an explicit failure, never the answer of a
\* successful call that found nothing.
C24_StoreFailureExplicit ==
    request.op # "none" /\ ~request.up =>
        /\ status # 200
        /\ answer # <<>>

(* ------------------------------ timeliness ---------------------------- *)
\* the length of the late list of the running call
LateCount == stats.late_arrivals - stats0.late_arrivals

InOnTime(r) == \E j \in 1..Len(on_time) : on_time[j] = r

\* the survivors of deduplication are split by the cutoff
SplitByCutoff ==
    /\ Len(on_time) + LateCount = Len(unique_readings)
    /\ \A k \in 1..Len(unique_readings) :
          LET r == unique_readings[k]
          IN  InOnTime(r) <=> r.time.kind = "naive" /\ r.time.v >= cutoff
    /\ LateCount = Cardinality({k \in 1..Len(unique_readings) :
                        /\ unique_readings[k].time.kind = "naive"
                        /\ unique_readings[k].time.v < cutoff})

\* C25: the timeliness stage splits the deduplicated survivors by one cutoff:
\* each is on time (time >= cutoff, the cutoff itself included) or late
\* (time < cutoff), never both or neither, and the two lists together have
\* as many records as there are survivors.
C25_TimelinessPartition == pc # "idle" => SplitByCutoff

\* the same of the calls whose survivors all carry a naive datetime
C25_PartitionOfNaiveTimes ==
    /\ pc # "idle"
    /\ \A k \in 1..Len(unique_readings) : unique_readings[k].time.kind = "naive"
    => SplitByCutoff

\* C26: a problem with single records in validation, deduplication or
\* timeliness never aborts the batch: ingest_batch returns success = false
\* only when the store failed on an insert.
C26_StageIssuesNeverAbort ==
    pc = "returned" => (result.success <=> failed_at = 0)

(* -------------------------- quality warnings -------------------------- *)
\* the warnings logged in the running call
WarningsOfCall == {log[k].warning : k \in {j \in 1..Len(log) : log[j].call = calls}}

\* the warnings the rates of the counters call for: duplicates over processed
\* above 5 %, invalid over processed above 10 %, nothing processed counted as
\* a rate of 0
WarningsDue ==
    {w \in {"High duplicate rate"} :
        stats.total_processed > 0 /\ 100 * stats.duplicates > 5 * stats.total_processed}
    \cup {w \in {"High invalid record rate"} :
        stats.total_processed > 0 /\ 100 * stats.invalid > 10 * stats.total_processed}

\* C27: quality accounting raises the duplicate warning exactly when
\* duplicates / processed is above MAX_DUPLICATE_RATE and the invalid warning
\* exactly when invalid / processed is above MAX_INVALID_RATE, each on its
\* own, and neither a warning nor a failed write of the quality row changes
\* the success of the call.
C27_QualityWarnings ==
    /\ Succeeded => WarningsOfCall = WarningsDue
    /\ pc = "returned" /\ failed_at = 0 /\ ~CompareRaises(unique_readings) =>
          result.success

\* the same of the calls on an instance whose quality rows were all written
C27_WarningsWhenRecorded ==
    Succeeded /\ Len(quality) = calls => WarningsOfCall = WarningsDue

(* ---------------------------- chunk atomicity ------------------------- *)
Rows(rs) == {rs[k] : k \in 1..Len(rs)}

\* the chunks of the running call whose insert was committed
Committed == IF failed_at # 0 THEN SubSeq(sent, 1, Len(sent) - 1) ELSE sent

\* C29, as stated: at every moment during and after a call the rows of its
\* batch present in the store are exactly the rows of a prefix of its chunk
\* sequence, the chunks committed so far.
C29_BatchRowsArePrefix ==
    pc # "idle" =>
        /\ IsPrefix(Flatten(Committed), on_time)
        /\ Rows(on_time) \cap store = Rows(Flatten(Committed))

\* C29, amended: at every moment during and after a call the store is the
\* store the call found plus those rows of the chunks committed so far, a
\* prefix of its chunk sequence, whose natural key was not stored before; a
\* chunk whose insert failed adds none of its rows, and the chunks committed
\* before it stay.
C29_ChunkAtomicity ==
    pc # "idle" =>
        /\ IsPrefix(Flatten(Committed), on_time)
        /\ Len(Flatten(Committed)) \in {Len(on_time)} \cup
              {k * MAX_BATCH_SIZE : k \in 0..Len(on_time)}
        /\ store0 \subseteq store
        /\ store \ store0 =
              {r \in Rows(Flatten(Committed)) : NaturalKey(r) \notin StoredKeys(store0)}
\* the second chunk of a call failed after the first had added a row to a
\* store that held rows already
C29_Witness ==
    /\ pc = "returned"
    /\ failed_at = 2
    /\ store0 # {}
    /\ store # store0

\* C30: total_inserted counts the rows sent to the store: after a successful
\* call the readings newly in the store are at most total_inserted, and as
\* many exactly when none of the natural keys sent was stored before; a
\* stored row keeps its value.
C30_InsertedCountsRowsSent ==
    Succeeded =>
        /\ result.total_inserted = Len(on_time)
        /\ Cardinality(store \ store0) <= result.total_inserted
        /\ Cardinality(store \ store0) = result.total_inserted <=>
              StoredKeys(Rows(on_time)) \cap StoredKeys(store0) = {}
        /\ store0 \subseteq store
\* two rows were sent, one of them under a key stored with another value
C30_Witness ==
    /\ Succeeded
    /\ result.total_inserted = 2
    /\ Cardinality(store \ store0) = 1
    /\ \E r \in Rows(on_time), q \in store0 :
          NaturalKey(r) = NaturalKey(q) /\ r # q /\ q \in store

====
